---- MODULE Spec2Model ----
(***************************************************************************)
(* Rule evaluation and action dispatch of the email organizer:            *)
(*   modules/email_organizer/rule_engine.py  (RuleEngine)                 *)
(*   modules/email_organizer/organizer.py    (Organizer)                  *)
(* and the mailbox side that supplies the records:                        *)
(*   modules/email_reader/email_client.py      (EmailClient)              *)
(*   modules/email_reader/email_processor.py   (EmailProcessor)           *)
(*   modules/email_reader/email_processorv2.py (EmailProcessor)           *)
(*   email_reader/email_readerv4.py            (checkpointed reader)      *)
(*                                                                         *)
(* Python values are tagged records [t, s, n, l]: t is the type tag, s    *)
(* the characters of a str, n the number of an int or bool, l the items   *)
(* of a list.  A dict is a TLA+ record; a missing key is a name outside   *)
(* its DOMAIN, and the empty dict is <<>>.                                 *)
(***************************************************************************)
EXTENDS Integers, Sequences, FiniteSets, TLC

VARIABLES
    rules,             \* RuleEngine.rules, the list given at construction
    pc,                \* per pass: where the call stands
    op,                \* per pass: the entry point called ("evaluate", "organize_email")
    email_data,        \* per pass: the record passed to the call
    queue,             \* per pass: rules (by declaration index) the for loop of evaluate has yet to visit
    matching_actions,  \* per pass: evaluate's local list of {"priority", "action"}
    stop_processing,   \* per pass: evaluate's local stop flag
    result,            \* per pass: what evaluate returned (actions_with_priority in organize_email)
    pos,               \* per pass: index of the next item of organize_email's for loop
    applied_actions,   \* per pass: organize_email's local list
    org_stop,          \* per pass: organize_email's local stop flag
    exc,               \* per pass: the exception that left the call, "" when none
    inbox,             \* the records the mailbox collaborator supplies
    evaluated,         \* per pass (history): how the evaluate of this call ended, "" while it has not
    visited,           \* per pass (history): rules _evaluate_rule was called on, in order
    handled,           \* per pass (history): actions handed to a handler, in order
    memo,              \* (history) an earlier finished evaluate call: its record and outcome
    connection,        \* EmailClient.connection: "None" or the "IMAP4_SSL" object
    is_connected,      \* EmailClient.is_connected
    contacted,         \* (history) the server operations the last call issued, in order
    outcome,           \* (history) the last call of an EmailClient method and how it ended
    run,               \* (history) the last call of EmailProcessor.process_emails
    mailbox,           \* reader: the message numbers the server's search returns
    rpc,               \* reader: where process_emails stands
    email_uids,        \* reader: what the for loop of process_emails has yet to visit
    last_processed_uid,\* reader: the checkpoint loaded at the start of the run
    processed_count,   \* reader: emails processed in this run
    all_links,         \* reader: the global list of links not yet written
    should_exit,       \* reader: the global flag the SIGINT handler sets
    checkpoint,        \* reader: the number in CHECKPOINT_FILE, 0 when there is no file
    csv,               \* reader: the link rows of the output files
    processed,         \* reader (history): the emails processed, over all runs, in order
    extracted,         \* reader (history): the links extracted from processed emails
    runs,              \* reader (history): runs started
    faults             \* reader (history): failures of the server or the disk so far

vars == <<rules, pc, op, email_data, queue, matching_actions, stop_processing,
          result, pos, applied_actions, org_stop, exc, inbox, evaluated, visited,
          handled, memo, connection, is_connected, contacted, outcome, run,
          mailbox, rpc, email_uids, last_processed_uid, processed_count, all_links,
          should_exit, checkpoint, csv, processed, extracted, runs, faults>>

\* The state of the organizer and its callers
engineVars == <<rules, pc, op, email_data, queue, matching_actions, stop_processing,
                result, pos, applied_actions, org_stop, exc, inbox, evaluated, visited,
                handled, memo>>

\* The state of the EmailClient and of the EmailProcessor that owns it
clientVars == <<connection, is_connected, contacted, outcome, run>>

\* The state of the checkpointed reader, its files and its server
readerVars == <<mailbox, rpc, email_uids, last_processed_uid, processed_count,
                all_links, should_exit, checkpoint, csv, processed, extracted, runs,
                faults>>

----------------------------------------------------------------------------
(* Bounds of the model *)

\* Longest rule list the engine is constructed with.
MaxRules == 2

\* Longest string among the field and condition values of the operator checks.
MaxStrLen == 2

\* Longest conditions list of a rule in the rule matcher checks.
MaxConds == 2

\* Most messages in the mailbox an EmailClient fetches from.
MaxUids == 2

\* Most messages in the mailbox of the checkpointed reader.
MaxMail == 11

\* Most runs of the checkpointed reader.
MaxRuns == 2

\* Most failures of the server or the disk over the runs of the reader.
MaxFaults == 1

\* Save periods in one batch of the reader.
BatchPeriods == 1

----------------------------------------------------------------------------
(* Python values *)

\* Characters in code point order.
CharTable == <<"(", ".", "A", "B", "D", "N", "O", "R", "X", "a", "b", "d", "n", "o", "r", "x">>

Ord(c) == CHOOSE i \in 1..Len(CharTable) : CharTable[i] = c

IsUpperChar(c) == Ord(c) \in 3..9

IsLowerChar(c) == Ord(c) \in 10..16

\* str.lower() and str.upper(), per character
LowerChar(c) == IF IsUpperChar(c) THEN CharTable[Ord(c) + 7] ELSE c

UpperChar(c) == IF IsLowerChar(c) THEN CharTable[Ord(c) - 7] ELSE c

Lower(s) == [i \in 1..Len(s) |-> LowerChar(s[i])]

Upper(s) == [i \in 1..Len(s) |-> UpperChar(s[i])]

Str(s) == [t |-> "str", s |-> s, n |-> 0, l |-> <<>>]

Num(n) == [t |-> "int", s |-> <<>>, n |-> n, l |-> <<>>]

Bool(b) == [t |-> "bool", s |-> <<>>, n |-> IF b THEN 1 ELSE 0, l |-> <<>>]

None == [t |-> "none", s |-> <<>>, n |-> 0, l |-> <<>>]

List(l) == [t |-> "list", s |-> <<>>, n |-> 0, l |-> l]

IsStr(a) == a.t = "str"

IsList(a) == a.t = "list"

\* bool is a subclass of int: True == 1 and True > 0
IsNumber(a) == a.t \in {"int", "bool"}

\* A test for None only: empty strings and collections count as set
Truthy_NotNone(a) == a.t # "none"

\* bool(a)
Truthy(a) ==
    CASE a.t = "none" -> FALSE
      [] a.t = "str" -> a.s # <<>>
      [] a.t = "list" -> a.l # <<>>
      [] OTHER -> a.n # 0

Min(S) == CHOOSE m \in S : \A k \in S : m <= k

\* a == b on values that are not lists
ScalarEq(a, b) ==
    \/ IsNumber(a) /\ IsNumber(b) /\ a.n = b.n
    \/ IsStr(a) /\ IsStr(b) /\ a.s = b.s
    \/ a.t = "none" /\ b.t = "none"

\* a == b (operator.eq)
PyEq(a, b) ==
    IF IsList(a) /\ IsList(b)
    THEN /\ Len(a.l) = Len(b.l)
         /\ \A i \in 1..Len(a.l) : ScalarEq(a.l[i], b.l[i])
    ELSE ~IsList(a) /\ ~IsList(b) /\ ScalarEq(a, b)

\* x in s for strings: s has x as a substring
IsSubstring(x, s) ==
    \E i \in 0..(Len(s) - Len(x)) : SubSeq(s, i + 1, i + Len(x)) = x

StartsWith(s, x) == Len(x) <= Len(s) /\ SubSeq(s, 1, Len(x)) = x

EndsWith(s, x) == Len(x) <= Len(s) /\ SubSeq(s, Len(s) - Len(x) + 1, Len(s)) = x

\* Order of two strings by code points: "lt", "eq" or "gt"
StrCmp(a, b) ==
    LET n == IF Len(a) < Len(b) THEN Len(a) ELSE Len(b)
        d == {i \in 1..n : a[i] # b[i]}
    IN  IF d = {}
        THEN IF Len(a) < Len(b) THEN "lt" ELSE IF Len(a) > Len(b) THEN "gt" ELSE "eq"
        ELSE IF Ord(a[Min(d)]) < Ord(b[Min(d)]) THEN "lt" ELSE "gt"

\* Order of two values that are not lists; "err" where Python raises TypeError
ScalarCmp(a, b) ==
    CASE IsNumber(a) /\ IsNumber(b) ->
            IF a.n < b.n THEN "lt" ELSE IF a.n > b.n THEN "gt" ELSE "eq"
      [] IsStr(a) /\ IsStr(b) -> StrCmp(a.s, b.s)
      [] OTHER -> "err"

\* Order of two values as <, <=, >, >= see it; lists compare by their first differing items
PyCmp(a, b) ==
    CASE IsList(a) /\ IsList(b) ->
            LET n == IF Len(a.l) < Len(b.l) THEN Len(a.l) ELSE Len(b.l)
                d == {i \in 1..n : ~ScalarEq(a.l[i], b.l[i])}
            IN  IF d = {}
                THEN IF Len(a.l) < Len(b.l) THEN "lt"
                     ELSE IF Len(a.l) > Len(b.l) THEN "gt" ELSE "eq"
                ELSE ScalarCmp(a.l[Min(d)], b.l[Min(d)])
      [] IsList(a) \/ IsList(b) -> "err"
      [] OTHER -> ScalarCmp(a, b)

\* re.match(pattern, s) for patterns of literal characters and ".": a match
\* at position 0, which need not consume the whole string.  "(" is an
\* unbalanced parenthesis, for which re.match raises re.error.
RegexValid(pattern) == \A i \in 1..Len(pattern) : pattern[i] # "("

RegexMatch(pattern, s) ==
    /\ Len(pattern) <= Len(s)
    /\ \A i \in 1..Len(pattern) : pattern[i] = "." \/ pattern[i] = s[i]

----------------------------------------------------------------------------
(* RuleEngine *)

\* dict.get(k, default)
Get(d, k, default) == IF k \in DOMAIN d THEN d[k] ELSE default

AsResult(b) == IF b THEN "true" ELSE "false"

IsException(r) == r \notin {"true", "false"}

\* The keys of self.operators
Operators ==
    {"equals", "contains", "not_contains", "startswith", "endswith", "matches_regex",
     "equals_ignore_case", "greater_than", "less_than", "greater_than_or_equal",
     "less_than_or_equal", "is_empty", "is_not_empty", "in", "not_in"}

\* [item.lower() for item in b] raises AttributeError on an item that is no str
AllStrItems(b) == \A i \in 1..Len(b.l) : IsStr(b.l[i])

LowerMember(a, b) == \E i \in 1..Len(b.l) : Lower(b.l[i].s) = Lower(a.s)

Member(a, b) == \E i \in 1..Len(b.l) : PyEq(b.l[i], a)

\* self.operators[operation](a, b): "true", "false", or the exception it raises
OpFunc(operation, a, b) ==
    CASE operation = "equals" -> AsResult(PyEq(a, b))
      [] operation = "contains" ->
            AsResult(IsStr(a) /\ IsStr(b) /\ IsSubstring(Lower(b.s), Lower(a.s)))
      [] operation = "not_contains" ->
            IF IsStr(a) /\ IsStr(b)
            THEN AsResult(~IsSubstring(Lower(b.s), Lower(a.s)))
            ELSE "true"
      [] operation = "startswith" ->
            AsResult(IsStr(a) /\ IsStr(b) /\ StartsWith(Lower(a.s), Lower(b.s)))
      [] operation = "endswith" ->
            AsResult(IsStr(a) /\ IsStr(b) /\ EndsWith(Lower(a.s), Lower(b.s)))
      [] operation = "matches_regex" ->
            IF IsStr(a) /\ IsStr(b)
            THEN IF RegexValid(b.s) THEN AsResult(RegexMatch(b.s, a.s)) ELSE "error"
            ELSE "false"
      [] operation = "equals_ignore_case" ->
            AsResult(IsStr(a) /\ IsStr(b) /\ Lower(a.s) = Lower(b.s))
      [] operation = "greater_than" ->
            IF PyCmp(a, b) = "err" THEN "TypeError" ELSE AsResult(PyCmp(a, b) = "gt")
      [] operation = "less_than" ->
            IF PyCmp(a, b) = "err" THEN "TypeError" ELSE AsResult(PyCmp(a, b) = "lt")
      [] operation = "greater_than_or_equal" ->
            IF PyCmp(a, b) = "err" THEN "TypeError" ELSE AsResult(PyCmp(a, b) \in {"gt", "eq"})
      [] operation = "less_than_or_equal" ->
            IF PyCmp(a, b) = "err" THEN "TypeError" ELSE AsResult(PyCmp(a, b) \in {"lt", "eq"})
      [] operation = "is_empty" -> AsResult(~Truthy(a))
      [] operation = "is_not_empty" -> AsResult(Truthy(a))
      [] operation = "in" ->
            IF IsList(b) /\ IsStr(a)
            THEN IF AllStrItems(b) THEN AsResult(LowerMember(a, b)) ELSE "AttributeError"
            ELSE AsResult(IsList(b) /\ Member(a, b))
      [] operation = "not_in" ->
            IF IsList(b) /\ IsStr(a)
            THEN IF AllStrItems(b) THEN AsResult(~LowerMember(a, b)) ELSE "AttributeError"
            ELSE IF IsList(b) THEN AsResult(~Member(a, b)) ELSE "true"

\* The field read with email_data.get(field): an absent field is None
ConditionResult_AbsentAsNone(condition, email) ==
    LET field == Get(condition, "field", "")
        operation == Get(condition, "operation", "")
        value == Get(condition, "value", None)
    IN  IF field # "" /\ operation # ""
        THEN IF operation \in Operators
             THEN OpFunc(operation, Get(email, field, None), value)
             ELSE "false"
        ELSE "false"

\* The operator looked up with self.operators[operation]: an unknown
\* operation raises KeyError
ConditionResult_UnknownRaises(condition, email) ==
    LET field == Get(condition, "field", "")
        operation == Get(condition, "operation", "")
        value == Get(condition, "value", None)
    IN  IF field # "" /\ operation # "" /\ field \in DOMAIN email
        THEN IF operation \in Operators
             THEN OpFunc(operation, email[field], value)
             ELSE "KeyError"
        ELSE "false"

\* One pass of the loop over the conditions of _evaluate_rule: what is
\* appended to results for this condition, or the exception raised.
\* A missing "field" or "operation" is None, falsy like "".
ConditionResult(condition, email) ==
    LET field == Get(condition, "field", "")
        operation == Get(condition, "operation", "")
        value == Get(condition, "value", None)
    IN  IF field # "" /\ operation # "" /\ field \in DOMAIN email
        THEN IF operation \in Operators
             THEN OpFunc(operation, email[field], value)
             ELSE "false"
        ELSE "false"

\* rule.get("condition_logic", "AND")
LogicValue(rule) == Get(rule, "condition_logic", Str(<<"A", "N", "D">>))

\* .upper() of the logic raises AttributeError when the value is no str
LogicRaises(rule) == ~IsStr(LogicValue(rule))

\* _evaluate_rule(rule, email_data): "true", "false", or the exception raised.
\* The conditions are evaluated in order, so the first one that raises decides.
EvaluateRule(rule, email) ==
    LET conditions == Get(rule, "conditions", <<>>)
        logic == Upper(LogicValue(rule).s)
        results == [i \in 1..Len(conditions) |-> ConditionResult(conditions[i], email)]
        raising == {i \in 1..Len(conditions) : IsException(results[i])}
    IN  IF LogicRaises(rule) THEN "AttributeError"
        ELSE IF conditions = <<>> THEN "true"
        ELSE IF raising # {} THEN results[Min(raising)]
        ELSE IF logic = <<"O", "R">>
             THEN AsResult(\E i \in 1..Len(conditions) : results[i] = "true")
             ELSE AsResult(\A i \in 1..Len(conditions) : results[i] = "true")

\* An unstable sort: ties come out in reverse
StableOrder_TiesReversed(keys) ==
    LET n == Len(keys)
        Rank(i) == Cardinality({j \in 1..n : keys[j] < keys[i] \/ (keys[j] = keys[i] /\ j > i)}) + 1
    IN  [r \in 1..n |-> CHOOSE i \in 1..n : Rank(i) = r]

\* The stable ascending order of the indices of a list of keys, as sorted()
\* and list.sort() order their items: by key, ties in the order they had.
StableOrder(keys) ==
    LET n == Len(keys)
        Rank(i) == Cardinality({j \in 1..n : keys[j] < keys[i] \/ (keys[j] = keys[i] /\ j < i)}) + 1
    IN  [r \in 1..n |-> CHOOSE i \in 1..n : Rank(i) = r]

\* Another default in the sort key than in the collected item
RuleSortKey_DefaultZero(rule) == Get(rule, "priority", 0)

\* key=lambda r: r.get("priority", 100)
RuleSortKey(rule) == Get(rule, "priority", 100)

\* No sort: the rules are visited as declared
SortedRules_AsDeclared(rs) == [i \in 1..Len(rs) |-> i]

\* sorted(self.rules, key=...), as declaration indices
SortedRules(rs) == StableOrder([i \in 1..Len(rs) |-> RuleSortKey(rs[i])])

\* A descending sort: the items come out in the reverse order
SortedActions_Descending(items) ==
    LET order == StableOrder([i \in 1..Len(items) |-> 0 - items[i].priority])
    IN  [r \in 1..Len(items) |-> items[order[r]]]

\* matching_actions.sort(key=lambda item: item["priority"])
SortedActions(items) ==
    LET order == StableOrder([i \in 1..Len(items) |-> items[i].priority])
    IN  [r \in 1..Len(items) |-> items[order[r]]]

\* The item evaluate appends for a matched rule
MatchItem(rule) == [priority |-> Get(rule, "priority", 100), action |-> rule.action]

\* A test for the key only: an empty action counts
HasAction_KeyOnly(rule) == "action" \in DOMAIN rule

\* rule.get("action") is truthy: the key is there and is not None or {}
HasAction(rule) == DOMAIN Get(rule, "action", <<>>) # {}

IsStop(action) == Get(action, "type", "") = "stop_processing"

----------------------------------------------------------------------------
(* Organizer *)

\* The keys of self.action_handlers
HandlerTypes ==
    {"move_to_folder", "delete", "add_category", "add_flag", "remove_flag", "forward_to",
     "reply_with_template", "mark_as_read", "mark_as_unread", "set_importance",
     "stop_processing", "no_op"}

\* A lookup with a default handler: every type is dispatched
HasHandler_Default(type) == TRUE

\* action_type in self.action_handlers
HasHandler(type) == type \in HandlerTypes

\* A stop_processing handler that validates a "target" parameter
RequiredParam_StopTarget(type) ==
    CASE type \in {"move_to_folder", "stop_processing"} -> "target"
      [] type = "add_category" -> "category_name"
      [] type \in {"add_flag", "remove_flag"} -> "flag_type"
      [] type = "forward_to" -> "target_email"
      [] type = "reply_with_template" -> "template_id"
      [] type = "set_importance" -> "level"
      [] OTHER -> ""

\* The parameter each handler reads with action.get(...), "" when it reads none
RequiredParam(type) ==
    CASE type = "move_to_folder" -> "target"
      [] type = "add_category" -> "category_name"
      [] type \in {"add_flag", "remove_flag"} -> "flag_type"
      [] type = "forward_to" -> "target_email"
      [] type = "reply_with_template" -> "template_id"
      [] type = "set_importance" -> "level"
      [] OTHER -> ""

\* Handlers that do not validate: every one reports success
Handler_AlwaysSucceeds(type, action) == TRUE

\* handler(email_data, action): the success flag the handler of this type returns
Handler(type, action) ==
    RequiredParam(type) = "" \/ Get(action, RequiredParam(type), "") # ""

----------------------------------------------------------------------------
(* Inputs: rule sets and records *)

Passes == {1}

StopAction == [type |-> "stop_processing"]

MoveAction == [type |-> "move_to_folder", target |-> "Important"]

DeleteAction == [type |-> "delete"]

\* An item shaped as organize_email reads it: the action under the key "action"
Wrapped(action) == [action |-> action]

SubjectContainsA ==
    [field |-> "subject", operation |-> "contains", value |-> Str(<<"a">>)]

\* greater_than with no "value": the comparison is with None
SizeGreaterThan == [field |-> "size", operation |-> "greater_than"]

Merge(f, g) == [k \in DOMAIN f \cup DOMAIN g |-> IF k \in DOMAIN f THEN f[k] ELSE g[k]]

\* Catch-all rules over every combination of priority (1, 100 or none) and
\* action (stop, move, delete)
CoreRules ==
    {Merge(p, [action |-> a]) :
        p \in {<<>>, [priority |-> 1], [priority |-> 100]},
        a \in {StopAction, MoveAction, DeleteAction}}

\* Rules that match only a subject containing "a"
ConditionalRules ==
    {[priority |-> 1, conditions |-> <<SubjectContainsA>>, action |-> StopAction],
     [conditions |-> <<SubjectContainsA>>, action |-> MoveAction]}

\* A rule with no action, a rule with a condition that raises, a rule
\* whose action is in the item shape, a rule with an empty action, and rules
\* whose action lacks its parameter or is of no known type
ExtraRules ==
    {[priority |-> 1],
     [priority |-> 1, conditions |-> <<SizeGreaterThan>>, action |-> DeleteAction],
     [priority |-> 1, action |-> Wrapped(DeleteAction)],
     [priority |-> 1, action |-> <<>>],
     [action |-> [type |-> "move_to_folder"]],
     [action |-> [type |-> "archive"]]}

RulePool == CoreRules \cup ConditionalRules \cup ExtraRules

RuleSets == UNION {[1..n -> RulePool] : n \in 0..MaxRules}

Records ==
    {[subject |-> Str(<<"A", "b">>)],
     [subject |-> Str(<<"b">>), size |-> Num(1)]}

\* Inputs of the operator checks: one probed condition on "subject" against
\* one record, over every pairing of operation, condition value and field
\* value (or no such field), plus conditions lacking "field" or "operation".
Alphabet == {"a", "A", "b"}

CharSeqs(n) == UNION {[1..k -> Alphabet] : k \in 0..n}

OtherValues ==
    {None, Num(0), Num(1), Bool(TRUE), List(<<>>), List(<<Str(<<"a">>)>>),
     List(<<Str(<<"A", "b">>)>>), List(<<Num(1)>>)}

FieldValues == {Str(s) : s \in CharSeqs(MaxStrLen)} \cup OtherValues

ConditionValues ==
    {Str(s) : s \in CharSeqs(MaxStrLen - 1) \cup {<<"(">>, <<".">>}} \cup OtherValues

Operations == Operators \cup {"fuzzy_match", "starts_with", "ends_with"}

ProbeConditions ==
    {[field |-> "subject", operation |-> o, value |-> v] :
        o \in Operations, v \in ConditionValues}
    \cup {[operation |-> o, value |-> None] : o \in Operations}
    \cup {[field |-> "subject", value |-> v] : v \in ConditionValues}

ProbeRecords ==
    {[from |-> Str(<<"x">>)]}
    \cup {[from |-> Str(<<"x">>), subject |-> v] : v \in FieldValues}

\* A condition true of every probe record
SenderIsSet == [field |-> "from", operation |-> "is_not_empty"]

\* The probed condition in a rule with AND logic and in a rule with OR
\* logic, each next to a condition that is true
ProbeRules(probe) ==
    <<[priority |-> 1, condition_logic |-> Str(<<"A", "N", "D">>),
       conditions |-> <<probe, SenderIsSet>>, action |-> MoveAction],
      [priority |-> 2, condition_logic |-> Str(<<"O", "R">>),
       conditions |-> <<probe, SenderIsSet>>, action |-> Wrapped(DeleteAction)]>>

\* Inputs of the rule matcher checks: one rule over every pairing of a
\* condition_logic value (or none) and a conditions list (or none), followed
\* by a catch-all rule.
LogicValues ==
    {Str(<<"A", "N", "D">>), Str(<<"O", "R">>), Str(<<"a", "n", "d">>), Str(<<"o", "r">>),
     Str(<<"X", "O", "R">>), Str(<<>>), None, Num(1)}

SubjectIsEmpty == [field |-> "subject", operation |-> "is_empty"]

LogicConditions == {SenderIsSet, SubjectContainsA, SubjectIsEmpty}

ConditionLists == UNION {[1..n -> LogicConditions] : n \in 0..MaxConds}

LogicRules ==
    {Merge(l, Merge(c, [priority |-> 1, action |-> MoveAction])) :
        l \in {<<>>} \cup {[condition_logic |-> v] : v \in LogicValues},
        c \in {<<>>} \cup {[conditions |-> cs] : cs \in ConditionLists}}

CatchAllRule == [priority |-> 2, action |-> Wrapped(DeleteAction)]

LogicRecords ==
    {[from |-> Str(<<"x">>)],
     [from |-> Str(<<"x">>), subject |-> Str(<<"a">>)],
     [from |-> Str(<<"x">>), subject |-> Str(<<>>)]}

\* Inputs of the dispatch checks: catch-all rules of equal priority whose
\* actions are in the item shape, so that evaluate hands them to the
\* dispatch loop of organize_email in declaration order; one rule has a
\* plain action.
StopWithParams == [type |-> "stop_processing", target |-> "", level |-> "high"]

DispatchActions ==
    {StopAction, StopWithParams, MoveAction, DeleteAction,
     [type |-> "move_to_folder"],
     [type |-> "move_to_folder", target |-> ""],
     [type |-> "add_category"],
     [type |-> "add_flag", flag_type |-> ""],
     [type |-> "remove_flag"],
     [type |-> "forward_to", target_email |-> ""],
     [type |-> "reply_with_template"],
     [type |-> "set_importance", level |-> ""],
     [type |-> "archive", target |-> "Important"],
     [target |-> "Important"]}

DispatchRules ==
    {[action |-> Wrapped(a)] : a \in DispatchActions} \cup {[action |-> DeleteAction]}

DispatchRuleSets == UNION {[1..n -> DispatchRules] : n \in 0..MaxRules}

\* Inputs of the checks of concurrent passes: two callers, threads of an
\* embedding application, share one Organizer
PairPasses == {1, 2}

PairRules ==
    {[priority |-> 1, conditions |-> <<SubjectContainsA>>, action |-> StopAction],
     [conditions |-> <<SubjectContainsA>>, action |-> Wrapped(StopAction)],
     [action |-> Wrapped(DeleteAction)],
     [action |-> Wrapped([type |-> "move_to_folder"])],
     [priority |-> 1, conditions |-> <<SizeGreaterThan>>, action |-> Wrapped(MoveAction)]}

PairRuleSets == UNION {[1..n -> PairRules] : n \in 0..MaxRules}

NoMemo == [email |-> <<>>, outcome |-> "", result |-> <<>>]

----------------------------------------------------------------------------
(* The mailbox side before any call *)

\* No EmailClient method has been called
NoOutcome == [call |-> "", was_connected |-> FALSE, how |-> "", value |-> "",
              emails |-> <<>>, logged |-> ""]

\* process_emails of the EmailProcessor has not been called
NoRun == [version |-> "", filter |-> "", connected |-> "", calls |-> <<>>,
          opened |-> 0, rows |-> <<>>, how |-> ""]

\* EmailClient.__init__ (lines 19-20)
ClientNew ==
    /\ connection = "None"
    /\ is_connected = FALSE
    /\ contacted = <<>>
    /\ outcome = NoOutcome
    /\ run = NoRun

\* The reader's module as loaded (lines 68-71), no checkpoint file and no
\* output file, on a server whose search returns box
ReaderLoaded(box) ==
    /\ mailbox = box
    /\ rpc = "idle"
    /\ email_uids = <<>>
    /\ last_processed_uid = 0
    /\ processed_count = 0
    /\ all_links = <<>>
    /\ should_exit = FALSE
    /\ checkpoint = 0
    /\ csv = <<>>
    /\ processed = <<>>
    /\ extracted = {}
    /\ runs = 0
    /\ faults = 0

\* The mailbox side is left alone
NoMail == ClientNew /\ ReaderLoaded(<<>>)

----------------------------------------------------------------------------
(* The calls, one loop iteration per step *)

\* The locals of the calls of the passes P before any call
LocalsOf(P) ==
    /\ pc = [p \in P |-> "idle"]
    /\ op = [p \in P |-> ""]
    /\ email_data = [p \in P |-> <<>>]
    /\ queue = [p \in P |-> <<>>]
    /\ matching_actions = [p \in P |-> <<>>]
    /\ stop_processing = [p \in P |-> FALSE]
    /\ result = [p \in P |-> <<>>]
    /\ pos = [p \in P |-> 1]
    /\ applied_actions = [p \in P |-> <<>>]
    /\ org_stop = [p \in P |-> FALSE]
    /\ exc = [p \in P |-> ""]
    /\ evaluated = [p \in P |-> ""]
    /\ visited = [p \in P |-> <<>>]
    /\ handled = [p \in P |-> <<>>]
    /\ memo = NoMemo

InitLocals == LocalsOf(Passes)

Init ==
    /\ rules \in RuleSets
    /\ inbox = Records
    /\ InitLocals
    /\ NoMail

InitCond ==
    /\ \E probe \in ProbeConditions : rules = ProbeRules(probe)
    /\ \E e \in ProbeRecords : inbox = {e}
    /\ InitLocals
    /\ NoMail

InitDispatch ==
    /\ rules \in DispatchRuleSets
    /\ inbox = Records
    /\ InitLocals
    /\ NoMail

InitPair ==
    /\ rules \in PairRuleSets
    /\ inbox = Records
    /\ LocalsOf(PairPasses)
    /\ NoMail

InitLogic ==
    /\ \E r \in LogicRules : rules = <<r, CatchAllRule>>
    /\ inbox = LogicRecords
    /\ InitLocals
    /\ NoMail

\* The outcome of the evaluate of pass p's call, as memo keeps it
LastEvaluate(p) ==
    [email |-> email_data[p], outcome |-> evaluated[p], result |-> result[p]]

\* A stale flag: the stop flag of the previous call is kept
EnterEvaluate_StaleFlag(p) ==
    /\ matching_actions' = [matching_actions EXCEPT ![p] = <<>>]
    /\ UNCHANGED stop_processing
    /\ queue' = [queue EXCEPT ![p] = SortedRules(rules)]
    /\ UNCHANGED rules

\* A sort in place, self.rules.sort(key=...): the rule list itself is reordered
EnterEvaluate_SortInPlace(p) ==
    /\ matching_actions' = [matching_actions EXCEPT ![p] = <<>>]
    /\ stop_processing' = [stop_processing EXCEPT ![p] = FALSE]
    /\ rules' = [i \in 1..Len(rules) |-> rules[SortedRules(rules)[i]]]
    /\ queue' = [queue EXCEPT ![p] = [i \in 1..Len(rules) |-> i]]

\* evaluate is entered: its locals are initialised and the rules sorted for
\* the for loop (lines 59-62); sorted() builds a new list and leaves
\* self.rules as it is
EnterEvaluate(p) ==
    /\ matching_actions' = [matching_actions EXCEPT ![p] = <<>>]
    /\ stop_processing' = [stop_processing EXCEPT ![p] = FALSE]
    /\ queue' = [queue EXCEPT ![p] = SortedRules(rules)]
    /\ UNCHANGED rules

\* No break: the loop runs on after the stop flag is set
LoopContinues_NoBreak(p) == queue[p] # <<>>

\* The stop flag kept on the engine, self.stop_processing: one flag for
\* all the calls in flight
LoopContinues_SharedFlag(p) ==
    /\ \A q \in DOMAIN pc : ~stop_processing[q]
    /\ queue[p] # <<>>

\* The for loop of evaluate takes another rule: one is left and the stop
\* flag has not made it break (lines 62-64)
LoopContinues(p) == ~stop_processing[p] /\ queue[p] # <<>>

\* A caller calls evaluate or organize_email with a record.
Call(p, o, e) ==
    /\ pc[p] \in {"idle", "returned", "raised"}
    /\ pc' = [pc EXCEPT ![p] = "evaluate"]
    /\ op' = [op EXCEPT ![p] = o]
    /\ email_data' = [email_data EXCEPT ![p] = e]
    /\ EnterEvaluate(p)
    /\ result' = [result EXCEPT ![p] = <<>>]
    /\ pos' = [pos EXCEPT ![p] = 1]
    /\ applied_actions' = [applied_actions EXCEPT ![p] = <<>>]
    /\ org_stop' = [org_stop EXCEPT ![p] = FALSE]
    /\ exc' = [exc EXCEPT ![p] = ""]
    /\ evaluated' = [evaluated EXCEPT ![p] = ""]
    /\ visited' = [visited EXCEPT ![p] = <<>>]
    /\ handled' = [handled EXCEPT ![p] = <<>>]
    /\ memo' \in {memo} \cup (IF evaluated[p] # "" THEN {LastEvaluate(p)} ELSE {})
    /\ UNCHANGED <<inbox, clientVars, readerVars>>

\* One iteration of the for loop of evaluate (lines 62-74) on the next rule
\* in priority order.
EvaluateStep(p) ==
    /\ pc[p] = "evaluate"
    /\ LoopContinues(p)
    /\ LET rule == rules[Head(queue[p])]
           match == EvaluateRule(rule, email_data[p])
       IN  /\ visited' = [visited EXCEPT ![p] = Append(@, Head(queue[p]))]
           /\ IF IsException(match)
              THEN /\ pc' = [pc EXCEPT ![p] = "raised"]
                   /\ exc' = [exc EXCEPT ![p] = match]
                   /\ evaluated' = [evaluated EXCEPT ![p] = match]
                   /\ queue' = [queue EXCEPT ![p] = <<>>]
                   /\ matching_actions' = [matching_actions EXCEPT ![p] = <<>>]
                   /\ UNCHANGED stop_processing
              ELSE /\ queue' = [queue EXCEPT ![p] = Tail(@)]
                   /\ matching_actions' = [matching_actions EXCEPT ![p] =
                          IF match = "true" /\ HasAction(rule)
                          THEN Append(@, MatchItem(rule)) ELSE @]
                   /\ stop_processing' = [stop_processing EXCEPT ![p] =
                          match = "true" /\ HasAction(rule) /\ IsStop(rule.action)]
                   /\ UNCHANGED <<pc, exc, evaluated>>
    /\ UNCHANGED <<rules, op, email_data, result, pos, applied_actions, org_stop,
                   inbox, handled, memo, clientVars, readerVars>>

\* The loop of evaluate ends (the break of line 64, or no rule left); the
\* matched items are sorted and their actions returned (lines 77-79).  In
\* organize_email the returned list is actions_with_priority (lines 39-41).
EvaluateReturn(p) ==
    /\ pc[p] = "evaluate"
    /\ ~LoopContinues(p)
    /\ LET sorted == SortedActions(matching_actions[p])
       IN  /\ matching_actions' = [matching_actions EXCEPT ![p] = sorted]
           /\ result' = [result EXCEPT ![p] = [i \in 1..Len(sorted) |-> sorted[i].action]]
    /\ evaluated' = [evaluated EXCEPT ![p] = "returned"]
    /\ pc' = [pc EXCEPT ![p] = IF op[p] = "evaluate" THEN "returned" ELSE "organize"]
    /\ UNCHANGED <<rules, op, email_data, queue, stop_processing, pos, applied_actions,
                   org_stop, exc, inbox, visited, handled, memo, clientVars, readerVars>>

\* No break: the loop runs on after a stop_processing action
DispatchContinues_NoBreak(p) == pos[p] <= Len(result[p])

\* The for loop of organize_email takes another item: one is left and the
\* stop flag has not made it break (lines 43-46)
DispatchContinues(p) == ~org_stop[p] /\ pos[p] <= Len(result[p])

\* One iteration of the for loop of organize_email (lines 43-62) on the
\* next item of the list evaluate returned.
OrganizeStep(p) ==
    /\ pc[p] = "organize"
    /\ DispatchContinues(p)
    /\ LET item == result[p][pos[p]]
           action == item.action
           action_type == Get(action, "type", "")
       IN  IF "action" \notin DOMAIN item
           THEN /\ pc' = [pc EXCEPT ![p] = "raised"]
                /\ exc' = [exc EXCEPT ![p] = "KeyError"]
                /\ applied_actions' = [applied_actions EXCEPT ![p] = <<>>]
                /\ UNCHANGED <<pos, org_stop, handled>>
           ELSE /\ pos' = [pos EXCEPT ![p] = @ + 1]
                /\ handled' = [handled EXCEPT ![p] =
                       IF HasHandler(action_type) THEN Append(@, action) ELSE @]
                /\ applied_actions' = [applied_actions EXCEPT ![p] =
                       IF HasHandler(action_type) /\ Handler(action_type, action)
                       THEN Append(@, action) ELSE @]
                /\ org_stop' = [org_stop EXCEPT ![p] =
                       HasHandler(action_type) /\ action_type = "stop_processing"]
                /\ UNCHANGED <<pc, exc>>
    /\ UNCHANGED <<rules, op, email_data, queue, matching_actions, stop_processing,
                   result, inbox, evaluated, visited, memo, clientVars, readerVars>>

\* The loop of organize_email ends (the break of line 46, or no item left)
\* and applied_actions is returned (line 64).
OrganizeReturn(p) ==
    /\ pc[p] = "organize"
    /\ ~DispatchContinues(p)
    /\ pc' = [pc EXCEPT ![p] = "returned"]
    /\ UNCHANGED <<rules, op, email_data, queue, matching_actions, stop_processing,
                   result, pos, applied_actions, org_stop, exc, inbox, evaluated,
                   visited, handled, memo, clientVars, readerVars>>

Next ==
    \E p \in Passes :
        \/ \E o \in {"evaluate", "organize_email"}, e \in inbox : Call(p, o, e)
        \/ EvaluateStep(p)
        \/ EvaluateReturn(p)
        \/ OrganizeStep(p)
        \/ OrganizeReturn(p)

\* The steps of two callers, interleaved
NextPair ==
    \E p \in PairPasses :
        \/ \E o \in {"evaluate", "organize_email"}, e \in inbox : Call(p, o, e)
        \/ EvaluateStep(p)
        \/ EvaluateReturn(p)
        \/ OrganizeStep(p)
        \/ OrganizeReturn(p)

Spec == Init /\ [][Next]_vars

SpecCond == InitCond /\ [][Next]_vars

SpecLogic == InitLogic /\ [][Next]_vars

SpecDispatch == InitDispatch /\ [][Next]_vars

SpecPair == InitPair /\ [][NextPair]_vars

----------------------------------------------------------------------------
(* Properties of RuleEngine.evaluate *)

Range(f) == {f[i] : i \in DOMAIN f}

\* The priority a rule is ordered by: its "priority", 100 when it has none
PriorityOrDefault(rule) == IF "priority" \in DOMAIN rule THEN rule.priority ELSE 100

Matches(rule, email) == EvaluateRule(rule, email) = "true"

\* A rule that matches the record and carries an action
Contributes(rule, email) == Matches(rule, email) /\ DOMAIN Get(rule, "action", <<>>) # {}

\* A rule that matches the record and whose action is stop_processing
MatchedStop(rule, email) ==
    Contributes(rule, email) /\ Get(rule.action, "type", "") = "stop_processing"

\* Rule i comes before rule j in priority order, ties by declaration
Precedes(i, j) ==
    \/ PriorityOrDefault(rules[i]) < PriorityOrDefault(rules[j])
    \/ PriorityOrDefault(rules[i]) = PriorityOrDefault(rules[j]) /\ i < j

\* The visited rules that matched with an action, in the order visited
Producers(p) ==
    LET Test(k) == Contributes(rules[k], email_data[p])
    IN  SelectSeq(visited[p], Test)

ActionsOf(idx) == [k \in 1..Len(idx) |-> rules[idx[k]].action]

IsBefore(i, j, seq) ==
    \E a, b \in 1..Len(seq) : a < b /\ seq[a] = i /\ seq[b] = j

\* C1: evaluate visits the rules in ascending priority order; a visited rule
\* that matched with a stop_processing action is the last rule visited, so
\* no rule of numerically greater priority is evaluated, and the collected
\* items are those of visited rules only.
C1_StopEndsEvaluation ==
    \A p \in Passes :
        LET v == visited[p]
            e == email_data[p]
        IN  /\ \A i, j \in 1..Len(v) :
                   i < j => PriorityOrDefault(rules[v[i]]) <= PriorityOrDefault(rules[v[j]])
            /\ \A i \in 1..Len(v) :
                   MatchedStop(rules[v[i]], e) =>
                       /\ i = Len(v)
                       /\ \A k \in 1..Len(rules) :
                              PriorityOrDefault(rules[k]) > PriorityOrDefault(rules[v[i]])
                                  => k \notin Range(v)
            /\ pc[p] # "raised" =>
                   /\ Len(matching_actions[p]) = Len(Producers(p))
                   /\ \A k \in 1..Len(matching_actions[p]) :
                          matching_actions[p][k].action = rules[Producers(p)[k]].action
            /\ evaluated[p] = "returned" => result[p] = ActionsOf(Producers(p))

\* C1 witness: evaluate returned after a matched stop_processing rule while
\* a rule of greater priority number that matches the record was not visited.
C1_Witness ==
    \E p \in Passes :
        /\ evaluated[p] = "returned"
        /\ \E i \in Range(visited[p]), k \in 1..Len(rules) :
               /\ MatchedStop(rules[i], email_data[p])
               /\ PriorityOrDefault(rules[k]) > PriorityOrDefault(rules[i])
               /\ Contributes(rules[k], email_data[p])
               /\ k \notin Range(visited[p])

\* Actions of known type with their required parameter
WellFormedAction(action) ==
    /\ Get(action, "type", "") \in HandlerTypes
    /\ Handler(Get(action, "type", ""), action)

\* C2: organize_email, given what its own evaluate returned, returns without
\* error exactly those actions in the same order when they are of known
\* types with their required parameters (evaluate returns nothing after the
\* first stop_processing).
C2_OrganizeReturnsEvaluated ==
    \A p \in Passes :
        (/\ op[p] = "organize_email"
         /\ evaluated[p] = "returned"
         /\ pc[p] \in {"returned", "raised"}
         /\ \A i \in 1..Len(result[p]) : WellFormedAction(result[p][i]))
        => pc[p] = "returned" /\ applied_actions[p] = result[p]

\* Exactly two rules of the rule set match the record, both carry an action
\* and their priorities differ: hi is the one of lower number
TwoMatch(p, hi, lo) ==
    /\ evaluated[p] = "returned"
    /\ hi # lo
    /\ {k \in 1..Len(rules) : Matches(rules[k], email_data[p])} = {hi, lo}
    /\ DOMAIN Get(rules[hi], "action", <<>>) # {}
    /\ DOMAIN Get(rules[lo], "action", <<>>) # {}
    /\ PriorityOrDefault(rules[hi]) < PriorityOrDefault(rules[lo])

\* C3 as stated: of two matching rules of different priority only the
\* higher-precedence action is returned if either action is stop_processing,
\* otherwise both in priority order.
C3_AsStated ==
    \A p \in Passes : \A hi, lo \in 1..Len(rules) :
        TwoMatch(p, hi, lo) =>
            result[p] =
                IF \/ Get(rules[hi].action, "type", "") = "stop_processing"
                   \/ Get(rules[lo].action, "type", "") = "stop_processing"
                THEN <<rules[hi].action>>
                ELSE <<rules[hi].action, rules[lo].action>>

\* C3 (amended): of two matching rules of different priority only the
\* higher-precedence action is returned if that action is stop_processing;
\* otherwise both are returned in priority order, also when the
\* lower-precedence action is stop_processing.
C3_ConflictResolution ==
    \A p \in Passes : \A hi, lo \in 1..Len(rules) :
        TwoMatch(p, hi, lo) =>
            result[p] =
                IF Get(rules[hi].action, "type", "") = "stop_processing"
                THEN <<rules[hi].action>>
                ELSE <<rules[hi].action, rules[lo].action>>

\* C3 witness: the lower-precedence rule, declared first, carries the stop:
\* both actions are returned, the stop last.
C3_Witness ==
    \E p \in Passes : \E hi, lo \in 1..Len(rules) :
        /\ TwoMatch(p, hi, lo)
        /\ lo < hi
        /\ Get(rules[lo].action, "type", "") = "stop_processing"
        /\ Get(rules[hi].action, "type", "") # "stop_processing"
        /\ result[p] = <<rules[hi].action, rules[lo].action>>

\* The other case: the higher-precedence rule carries the stop and only its
\* action is returned.
C3_WitnessStopFirst ==
    \E p \in Passes : \E hi, lo \in 1..Len(rules) :
        /\ TwoMatch(p, hi, lo)
        /\ lo < hi
        /\ Get(rules[hi].action, "type", "") = "stop_processing"
        /\ result[p] = <<rules[hi].action>>

\* Rules i < j have the same priority, match the record and carry an action
EqualPriorityMatch(p, i, j) ==
    /\ evaluated[p] = "returned"
    /\ i < j
    /\ PriorityOrDefault(rules[i]) = PriorityOrDefault(rules[j])
    /\ Contributes(rules[i], email_data[p])
    /\ Contributes(rules[j], email_data[p])

\* C4 as stated: the actions of matching rules of equal priority are all
\* returned, in declaration order.
C4_AsStated ==
    \A p \in Passes : \A i, j \in 1..Len(rules) :
        EqualPriorityMatch(p, i, j) =>
            /\ result[p] = ActionsOf(Producers(p))
            /\ IsBefore(i, j, Producers(p))

\* A matched stop_processing rule comes before rule j in priority order
StopBefore(p, j) ==
    \E k \in 1..Len(rules) : Precedes(k, j) /\ MatchedStop(rules[k], email_data[p])

\* C4 (amended): the actions of matching rules of equal priority are all
\* returned, in declaration order, when no matched stop_processing rule
\* comes before the last of them in priority order.
C4_EqualPriorityDeclarationOrder ==
    \A p \in Passes : \A i, j \in 1..Len(rules) :
        (EqualPriorityMatch(p, i, j) /\ ~StopBefore(p, j)) =>
            /\ result[p] = ActionsOf(Producers(p))
            /\ IsBefore(i, j, Producers(p))

\* C4 witness: two matching rules of equal priority with different actions,
\* both returned.
C4_Witness ==
    \E p \in Passes : \E i, j \in 1..Len(rules) :
        /\ EqualPriorityMatch(p, i, j)
        /\ ~StopBefore(p, j)
        /\ rules[i].action # rules[j].action
        /\ Len(result[p]) >= 2

\* C5: the returned actions are those of the matched rules ordered by
\* priority, ties in declaration order, a missing priority counting as 100;
\* the collected items are in priority order whenever the final sort could
\* run, so that sort changes nothing.
C5_ReturnedInPriorityOrder ==
    \A p \in Passes :
        /\ \A a, b \in 1..Len(Producers(p)) :
               a < b => Precedes(Producers(p)[a], Producers(p)[b])
        /\ \A a, b \in 1..Len(matching_actions[p]) :
               a < b => matching_actions[p][a].priority <= matching_actions[p][b].priority
        /\ SortedActions(matching_actions[p]) = matching_actions[p]
        /\ evaluated[p] = "returned" => result[p] = ActionsOf(Producers(p))

\* C5 witness: a returned list in which the action of a rule without a
\* priority follows that of a rule of priority 1 declared after it.
C5_Witness ==
    \E p \in Passes : \E i, j \in 1..Len(rules) :
        /\ evaluated[p] = "returned"
        /\ i < j
        /\ "priority" \notin DOMAIN rules[i]
        /\ PriorityOrDefault(rules[j]) < 100
        /\ IsBefore(j, i, Producers(p))
        /\ result[p] = <<rules[j].action, rules[i].action>>

\* C6: an evaluate of a record ends as any earlier evaluate of the same
\* record did, with the same ordered action list.
C6_Idempotent ==
    \A p \in Passes :
        (evaluated[p] # "" /\ memo.outcome # "" /\ memo.email = email_data[p])
        => memo.outcome = evaluated[p] /\ memo.result = result[p]

\* C6 witness: a second evaluate of a record returned the earlier list,
\* which ends with a stop_processing action.
C6_Witness ==
    \E p \in Passes :
        /\ evaluated[p] = "returned"
        /\ memo.outcome = "returned"
        /\ memo.email = email_data[p]
        /\ Len(result[p]) = 2
        /\ result[p][2] = StopAction

\* C7: no call of evaluate or organize_email ends with an exception.
C7_NeverRaises == \A p \in Passes : pc[p] # "raised"

----------------------------------------------------------------------------
(* Properties of the condition evaluator, on the probe rules *)

\* The probed condition: the first condition of both probe rules
Probe == rules[1].conditions[1]

\* Rule k has an item among the collected ones
Collected(p, k) ==
    \E i \in 1..Len(matching_actions[p]) : matching_actions[p][i].action = rules[k].action

\* The evaluate of pass p's call has not raised
NotRaised(p) == evaluated[p] \in {"", "returned"}

\* The field is present and its value, or the condition value, has a type
\* the operation does not fit
TypeMismatch(condition, email) ==
    /\ {"field", "operation", "value"} \subseteq DOMAIN condition
    /\ condition.field \in DOMAIN email
    /\ LET a == email[condition.field]
           b == condition.value
           o == condition.operation
       IN  \/ /\ o \in {"contains", "not_contains", "startswith", "endswith",
                        "starts_with", "ends_with", "equals_ignore_case"}
              /\ ~IsStr(a)
           \/ /\ o \in {"greater_than", "less_than"}
              /\ \/ IsStr(a) /\ IsNumber(b)
                 \/ IsNumber(a) /\ IsStr(b)
                 \/ b = None
           \/ /\ o \in {"in", "not_in"}
              /\ ~IsList(b)

\* C8: a condition with a type mismatch is false and raises nothing, so
\* the rule with AND logic that holds it collects nothing and evaluate does
\* not raise.
C8_TypeMismatchIsFalse ==
    \A p \in Passes :
        (pc[p] # "idle" /\ TypeMismatch(Probe, email_data[p]))
        => NotRaised(p) /\ ~Collected(p, 1)

\* C9: a condition on a field absent from the record is false for every
\* operation: evaluate does not raise, the rule with AND logic never
\* matches, and the rule with OR logic matches through its other condition.
C9_AbsentFieldIsFalse ==
    \A p \in Passes :
        (/\ pc[p] # "idle"
         /\ "field" \in DOMAIN Probe
         /\ Probe.field \notin DOMAIN email_data[p])
        => /\ ConditionResult(Probe, email_data[p]) = "false"
           /\ NotRaised(p)
           /\ ~Collected(p, 1)
           /\ 2 \in Range(visited[p]) => Collected(p, 2)
           /\ evaluated[p] = "returned" => result[p] = <<rules[2].action>>

\* C9 witness: is_empty on an absent field, both rules visited and only the
\* action of the rule with OR logic returned.
C9_Witness ==
    \E p \in Passes :
        /\ evaluated[p] = "returned"
        /\ {"field", "operation"} \subseteq DOMAIN Probe
        /\ Probe.operation = "is_empty"
        /\ Probe.field \notin DOMAIN email_data[p]
        /\ visited[p] = <<1, 2>>
        /\ result[p] = <<rules[2].action>>

\* C10: a condition whose operation is not in the operator table is false
\* and raises nothing: the rule with AND logic does not match, and the loop
\* goes on to the remaining rule.
C10_UnknownOperatorIsFalse ==
    \A p \in Passes :
        (/\ pc[p] # "idle"
         /\ "operation" \in DOMAIN Probe
         /\ Probe.operation \notin Operators)
        => /\ NotRaised(p)
           /\ ~Collected(p, 1)
           /\ (pc[p] = "evaluate" /\ visited[p] = <<1>>) => ENABLED EvaluateStep(p)
           /\ evaluated[p] = "returned" => visited[p] = <<1, 2>>

\* C10 witness: fuzzy_match on a present field, evaluate returned after
\* visiting both rules.
C10_Witness ==
    \E p \in Passes :
        /\ evaluated[p] = "returned"
        /\ {"field", "operation"} \subseteq DOMAIN Probe
        /\ Probe.operation = "fuzzy_match"
        /\ Probe.field \in DOMAIN email_data[p]
        /\ visited[p] = <<1, 2>>
        /\ pc[p] = "returned"

\* The probed condition is on a field of the record, with an operation
ProbeApplies(p) ==
    /\ pc[p] # "idle"
    /\ {"field", "operation", "value"} \subseteq DOMAIN Probe
    /\ Probe.field \in DOMAIN email_data[p]

\* The probed condition compares two strings
ProbeOnStrings(p) ==
    /\ ProbeApplies(p)
    /\ IsStr(email_data[p][Probe.field])
    /\ IsStr(Probe.value)

\* The rule with AND logic has been evaluated without an exception
Rule1Decided(p) == NotRaised(p) /\ 1 \in Range(visited[p])

\* C11: starts_with (ends_with) on a present string field is true exactly
\* when the field value starts (ends) with the condition value, letter case
\* ignored: the rule with AND logic that holds the condition beside a true
\* one matches exactly then.
C11_StartsEndsWithRecognized ==
    \A p \in Passes :
        (/\ ProbeOnStrings(p)
         /\ Probe.operation \in {"starts_with", "ends_with"}
         /\ Rule1Decided(p))
        => LET a == Lower(email_data[p][Probe.field].s)
               b == Lower(Probe.value.s)
           IN  Collected(p, 1) <=>
                   IF Probe.operation = "starts_with" THEN StartsWith(a, b) ELSE EndsWith(a, b)

\* The probed condition and the record with both operands in lower case
FoldedProbe == [Probe EXCEPT !.value = Str(Lower(@.s))]

FoldedRecord(p) == [email_data[p] EXCEPT ![Probe.field] = Str(Lower(@.s))]

CaseBlindOperations ==
    {"contains", "starts_with", "ends_with", "startswith", "endswith", "equals_ignore_case"}

\* On two strings the case-blind operations decide as they do on the
\* operands in lower case
C12_CaseBlind ==
    \A p \in Passes :
        (/\ ProbeOnStrings(p)
         /\ Probe.operation \in CaseBlindOperations
         /\ Rule1Decided(p))
        => (Collected(p, 1) <=> ConditionResult(FoldedProbe, FoldedRecord(p)) = "true")

\* On two strings equals is true exactly of the same characters in the same case
C12_EqualsCaseSensitive ==
    \A p \in Passes :
        (/\ ProbeOnStrings(p)
         /\ Probe.operation = "equals"
         /\ Rule1Decided(p))
        => (Collected(p, 1) <=> email_data[p][Probe.field].s = Probe.value.s)

\* equals is true only of the same value of the same type
C12_EqualsTypeExact ==
    \A p \in Passes :
        (/\ ProbeApplies(p)
         /\ Probe.operation = "equals"
         /\ Rule1Decided(p)
         /\ Collected(p, 1))
        => email_data[p][Probe.field] = Probe.value

\* C12: on strings, contains, starts_with, ends_with and equals_ignore_case
\* give the same result whatever the letter case of either operand; equals
\* is case-sensitive and type-exact, true only when field value and
\* condition value are the same value of the same type.
C12_CaseAndTypeExact ==
    /\ C12_CaseBlind
    /\ C12_EqualsCaseSensitive
    /\ C12_EqualsTypeExact

\* a is a member of the list b: some item is a itself, letter case ignored
\* when a is a string
IsMember(a, b) ==
    \E i \in 1..Len(b.l) :
        IF IsStr(a)
        THEN IsStr(b.l[i]) /\ Lower(b.l[i].s) = Lower(a.s)
        ELSE PyEq(b.l[i], a)

\* C13: with a list as condition value, in is true exactly when the field
\* value is a member of the list (letter case ignored for a string, the
\* whole value compared), not_in exactly when it is not, and neither raises.
C13_InIsMembership ==
    \A p \in Passes :
        (/\ ProbeApplies(p)
         /\ IsList(Probe.value)
         /\ Probe.operation \in {"in", "not_in"})
        => /\ NotRaised(p)
           /\ Rule1Decided(p) =>
                  (Collected(p, 1) <=>
                      (Probe.operation = "in") = IsMember(email_data[p][Probe.field], Probe.value))

\* The falsy values: None, the empty string, the empty list, zero and False
IsFalsy(a) == a \in {None, Str(<<>>), List(<<>>), Num(0), Bool(FALSE)}

\* C14: on a present field is_empty is true exactly when the field value is
\* falsy and is_not_empty exactly when it is not, whatever the condition
\* value, and neither raises.
C14_EmptinessIgnoresValue ==
    \A p \in Passes :
        (ProbeApplies(p) /\ Probe.operation \in {"is_empty", "is_not_empty"})
        => /\ NotRaised(p)
           /\ Rule1Decided(p) =>
                  (Collected(p, 1) <=>
                      (Probe.operation = "is_empty") = IsFalsy(email_data[p][Probe.field]))

\* C14 witness: is_empty with a non-empty string as condition value matched
\* a record whose field is the empty list.
C14_Witness ==
    \E p \in Passes :
        /\ ProbeApplies(p)
        /\ Probe.operation = "is_empty"
        /\ Probe.value = Str(<<"a">>)
        /\ email_data[p][Probe.field] = List(<<>>)
        /\ evaluated[p] = "returned"
        /\ Collected(p, 1)

----------------------------------------------------------------------------
(* Properties of the rule matcher, on the rule sets of InitLogic *)

\* The conditions of the first rule, <<>> when it has none
ConditionsOf(rule) == IF "conditions" \in DOMAIN rule THEN rule.conditions ELSE <<>>

\* Condition k of the rule is true of the record
HoldsOf(rule, k, email) == ConditionResult(ConditionsOf(rule)[k], email) = "true"

\* The rule's condition_logic is OR, in any letter case
LogicIsOr(rule) ==
    /\ "condition_logic" \in DOMAIN rule
    /\ IsStr(rule.condition_logic)
    /\ Upper(rule.condition_logic.s) = <<"O", "R">>

\* C15: a rule with a non-empty conditions list matches iff at least one
\* condition is true when its condition_logic is OR, and iff all are true
\* when it is AND or any other value (AND and OR read in any letter case);
\* no condition_logic value makes evaluate raise.
C15_LogicCombination ==
    \A p \in Passes :
        (pc[p] # "idle" /\ ConditionsOf(rules[1]) # <<>>)
        => /\ NotRaised(p)
           /\ Rule1Decided(p) =>
                  (Collected(p, 1) <=>
                      IF LogicIsOr(rules[1])
                      THEN \E k \in 1..Len(ConditionsOf(rules[1])) :
                               HoldsOf(rules[1], k, email_data[p])
                      ELSE \A k \in 1..Len(ConditionsOf(rules[1])) :
                               HoldsOf(rules[1], k, email_data[p]))

\* C16: a rule whose conditions list is empty or missing matches every
\* record, whatever its condition_logic value: evaluate does not raise and
\* collects the rule's action once the rule is visited.
C16_EmptyConditionsMatch ==
    \A p \in Passes :
        (pc[p] # "idle" /\ ConditionsOf(rules[1]) = <<>>)
        => /\ NotRaised(p)
           /\ Rule1Decided(p) => Collected(p, 1)

----------------------------------------------------------------------------
(* Properties of Organizer.organize_email, on the rule sets of InitDispatch *)

Last(seq) == seq[Len(seq)]

\* Pass p is in, or has returned from, the dispatch loop of organize_email
Dispatching(p) == op[p] = "organize_email" /\ pc[p] \in {"organize", "returned"}

\* The action of item k of the list the loop of pass p runs over
ActionAt(p, k) == result[p][k].action

TypeOf(action) == IF "type" \in DOMAIN action THEN action.type ELSE "none"

\* The types of the handler table
KnownTypes ==
    {"move_to_folder", "delete", "add_category", "add_flag", "remove_flag", "forward_to",
     "reply_with_template", "mark_as_read", "mark_as_unread", "set_importance",
     "stop_processing", "no_op"}

\* The items the loop of pass p has gone through
Done(p) == 1..(pos[p] - 1)

\* The item on which the dispatch loop of pass p raised, if it did
RaisedOn(p) == IF pc[p] = "raised" /\ evaluated[p] = "returned" THEN {pos[p]} ELSE {}

\* C17: in a pass of organize_email a dispatched stop_processing action is
\* the last action dispatched and the last applied: the loop goes no
\* further than the item after which the flag was set, whatever follows it.
C17_StopEndsDispatch ==
    \A p \in Passes :
        /\ \A i \in 1..Len(handled[p]) :
               TypeOf(handled[p][i]) = "stop_processing" => i = Len(handled[p])
        /\ \A i \in 1..Len(applied_actions[p]) :
               TypeOf(applied_actions[p][i]) = "stop_processing" => i = Len(applied_actions[p])
        /\ Dispatching(p) =>
               \A k \in Done(p) :
                   TypeOf(ActionAt(p, k)) = "stop_processing" => k = pos[p] - 1

\* C17 witness: a pass returned after dispatching a stop_processing action
\* that another action of known type, with its parameters, follows in the
\* list; that action was neither dispatched nor applied.
C17_Witness ==
    \E p \in Passes :
        /\ Dispatching(p) /\ pc[p] = "returned"
        /\ Len(result[p]) = 2
        /\ TypeOf(ActionAt(p, 1)) = "stop_processing"
        /\ ActionAt(p, 2) = MoveAction
        /\ handled[p] = <<ActionAt(p, 1)>>
        /\ applied_actions[p] = <<ActionAt(p, 1)>>

\* C18: an action whose type is not in the handler table, or that has no
\* type, is skipped: no handler runs for it, it is not applied, it leaves
\* the stop flag unset and the loop goes on to the next item; the loop
\* raises on no item that carries an action.
C18_UnknownTypeSkipped ==
    \A p \in Passes :
        (op[p] = "organize_email" /\ pc[p] \in {"organize", "returned", "raised"})
        => /\ RaisedOn(p) \subseteq {k \in 1..Len(result[p]) : "action" \notin DOMAIN result[p][k]}
           /\ \A k \in Done(p) :
                  TypeOf(ActionAt(p, k)) \notin KnownTypes
                  => /\ ActionAt(p, k) \notin Range(handled[p])
                     /\ ActionAt(p, k) \notin Range(applied_actions[p])
                     /\ Len(handled[p]) < pos[p] - 1
                     /\ k = pos[p] - 1 =>
                            /\ ~org_stop[p]
                            /\ (pc[p] = "organize" /\ pos[p] <= Len(result[p]))
                                   => ENABLED OrganizeStep(p)

\* C18 witness: a pass returned in which an action of unknown type was
\* followed by an action that was dispatched and applied.
C18_Witness ==
    \E p \in Passes :
        /\ Dispatching(p) /\ pc[p] = "returned"
        /\ Len(result[p]) = 2
        /\ TypeOf(ActionAt(p, 1)) = "archive"
        /\ ActionAt(p, 2) = MoveAction
        /\ handled[p] = <<MoveAction>>
        /\ applied_actions[p] = <<MoveAction>>

\* C18 witness for an action without a type
C18_WitnessNoType ==
    \E p \in Passes :
        /\ Dispatching(p) /\ pc[p] = "returned"
        /\ Len(result[p]) = 2
        /\ "type" \notin DOMAIN ActionAt(p, 1)
        /\ applied_actions[p] = <<ActionAt(p, 2)>>

\* The parameter each type requires
ParamOfType ==
    {<<"move_to_folder", "target">>, <<"add_category", "category_name">>,
     <<"add_flag", "flag_type">>, <<"remove_flag", "flag_type">>,
     <<"forward_to", "target_email">>, <<"reply_with_template", "template_id">>,
     <<"set_importance", "level">>}

\* The action is of a type with a required parameter, which is missing or empty
LacksParam(action) ==
    \E tp \in ParamOfType :
        /\ TypeOf(action) = tp[1]
        /\ (tp[2] \notin DOMAIN action \/ action[tp[2]] = "")

\* C19: a dispatched action whose required parameter is missing or empty
\* is handed to its handler and left out of the applied actions; the stop
\* flag stays unset and the loop goes on to the next item; the loop raises
\* on no item that carries an action.
C19_MissingParamFails ==
    \A p \in Passes :
        (op[p] = "organize_email" /\ pc[p] \in {"organize", "returned", "raised"})
        => /\ RaisedOn(p) \subseteq {k \in 1..Len(result[p]) : "action" \notin DOMAIN result[p][k]}
           /\ \A k \in Done(p) :
                  LacksParam(ActionAt(p, k))
                  => /\ ActionAt(p, k) \in Range(handled[p])
                     /\ ActionAt(p, k) \notin Range(applied_actions[p])
                     /\ k = pos[p] - 1 =>
                            /\ ~org_stop[p]
                            /\ (pc[p] = "organize" /\ pos[p] <= Len(result[p]))
                                   => ENABLED OrganizeStep(p)

\* C19 witness: a pass returned in which a move_to_folder with an empty
\* target was dispatched and left out, and the delete after it applied.
C19_Witness ==
    \E p \in Passes :
        /\ Dispatching(p) /\ pc[p] = "returned"
        /\ Len(result[p]) = 2
        /\ ActionAt(p, 1) = [type |-> "move_to_folder", target |-> ""]
        /\ ActionAt(p, 2) = DeleteAction
        /\ handled[p] = <<ActionAt(p, 1), DeleteAction>>
        /\ applied_actions[p] = <<DeleteAction>>

\* C20: a dispatched stop_processing action is applied whatever parameters
\* it carries, and it is the last of the applied actions of its pass, also
\* in the list the pass returns.
C20_StopNeverFails ==
    \A p \in Passes :
        (/\ Dispatching(p)
         /\ \E i \in 1..Len(handled[p]) : TypeOf(handled[p][i]) = "stop_processing")
        => /\ applied_actions[p] # <<>>
           /\ TypeOf(Last(applied_actions[p])) = "stop_processing"
           /\ Last(applied_actions[p]) = Last(handled[p])
           /\ org_stop[p]

\* C20 witness: a pass returned a list ending with a stop_processing action
\* that carries an empty target, dispatched after an action that failed.
C20_Witness ==
    \E p \in Passes :
        /\ Dispatching(p) /\ pc[p] = "returned"
        /\ Len(result[p]) = 2
        /\ LacksParam(ActionAt(p, 1))
        /\ ActionAt(p, 2) = StopWithParams
        /\ handled[p] = <<ActionAt(p, 1), StopWithParams>>
        /\ applied_actions[p] = <<StopWithParams>>

\* a is b with some items left out, the others in their order (b of at
\* most three items)
IsSubsequence(a, b) ==
    \E keep \in SUBSET (1..Len(b)) :
        /\ Cardinality(keep) = Len(a)
        /\ \A k \in 1..Len(a) :
               \E i \in keep : Cardinality({j \in keep : j <= i}) = k /\ b[i] = a[k]

\* The actions handed to a handler that has reported success, in order
Succeeded(p) ==
    LET Ok(action) == Handler(TypeOf(action), action)
    IN  SelectSeq(handled[p], Ok)

\* C21: the list organize_email returns is an order-preserving subsequence
\* of the list evaluate returned to it, made of exactly the actions whose
\* handler was invoked and reported success.
C21_AppliedIsSubsequence ==
    \A p \in Passes :
        (Dispatching(p) /\ pc[p] = "returned")
        => /\ IsSubsequence(applied_actions[p], result[p])
           /\ applied_actions[p] = Succeeded(p)

\* The same with the items of the list taken for what organize_email reads
\* of them, the value under their "action" key
C21_AppliedIsSubsequenceOfItems ==
    \A p \in Passes :
        (Dispatching(p) /\ pc[p] = "returned")
        => /\ IsSubsequence(applied_actions[p],
                            [k \in 1..Len(result[p]) |-> Get(result[p][k], "action", <<>>)])
           /\ applied_actions[p] = Succeeded(p)

----------------------------------------------------------------------------
(* Frame of RuleEngine.evaluate *)

\* C22: no step of an evaluate call changes the engine's rule list, which
\* keeps its rules in their declaration order, and none changes the record
\* the call was given or the records of the mailbox.
C22_EvaluateLeavesInputs ==
    [][/\ rules' = rules
       /\ inbox' = inbox
       /\ \A p \in Passes :
              pc[p] \in {"evaluate", "organize"} => email_data'[p] = email_data[p]]_vars

\* C22 witness: a second evaluate has returned on a rule list declared
\* against the priority order, which the loop visited in priority order.
C22_Witness ==
    \E p \in Passes :
        /\ evaluated[p] = "returned"
        /\ memo.outcome = "returned"
        /\ Len(rules) = 2
        /\ PriorityOrDefault(rules[1]) > PriorityOrDefault(rules[2])
        /\ visited[p] = <<2, 1>>

----------------------------------------------------------------------------
(* What RuleEngine.evaluate returns *)

\* The rule has no action: the key is missing or its value is empty
HasNoAction(rule) == "action" \notin DOMAIN rule \/ DOMAIN rule.action = {}

\* C24: evaluate returns exactly the actions of the visited rules that
\* matched and carry an action, in the order visited, each as the rule holds
\* it, whatever its type and parameters; a matched rule without an action
\* adds nothing and evaluation goes on after it to the last rule.
C24_ActionsReturnedAsDeclared ==
    \A p \in Passes :
        evaluated[p] = "returned"
        => /\ Len(result[p]) = Len(Producers(p))
           /\ \A k \in 1..Len(result[p]) : result[p][k] = rules[Producers(p)[k]].action
           /\ \A i \in 1..Len(visited[p]) :
                  (Matches(rules[visited[p][i]], email_data[p]) /\ HasNoAction(rules[visited[p][i]]))
                  => /\ visited[p][i] \notin Range(Producers(p))
                     /\ i = Len(visited[p]) => Len(visited[p]) = Len(rules)
           /\ \A i \in 1..Len(visited[p]) :
                  i < Len(visited[p]) => ~MatchedStop(rules[visited[p][i]], email_data[p])

\* C24 witness: a rule with an empty action matched first, and the action
\* of the rule visited after it, a move_to_folder without target, was
\* returned as it is.
C24_Witness ==
    \E p \in Passes :
        /\ evaluated[p] = "returned"
        /\ Len(rules) = 2
        /\ "action" \in DOMAIN rules[visited[p][1]]
        /\ HasNoAction(rules[visited[p][1]])
        /\ visited[p] = <<2, 1>>
        /\ result[p] = <<[type |-> "move_to_folder"]>>

\* C24 witness for an action of unknown type after a rule without action key
C24_WitnessUnknownType ==
    \E p \in Passes :
        /\ evaluated[p] = "returned"
        /\ visited[p] = <<1, 2>>
        /\ "action" \notin DOMAIN rules[1]
        /\ result[p] = <<[type |-> "archive"]>>

\* C25: a list evaluate returns holds at most one stop_processing action,
\* and if it holds one it is the last element.
C25_StopIsLastReturned ==
    \A p \in Passes :
        evaluated[p] = "returned"
        => \A i \in 1..Len(result[p]) :
               TypeOf(result[p][i]) = "stop_processing" => i = Len(result[p])

\* C25 witness: two rules with a stop_processing action match the record
\* and evaluate returned one action, the stop_processing of the first.
C25_Witness ==
    \E p \in Passes :
        /\ evaluated[p] = "returned"
        /\ Cardinality({k \in 1..Len(rules) : MatchedStop(rules[k], email_data[p])}) = 2
        /\ Len(result[p]) = 1
        /\ TypeOf(result[p][1]) = "stop_processing"

\* C25 witness for a stop_processing after another action
C25_WitnessStopLast ==
    \E p \in Passes :
        /\ evaluated[p] = "returned"
        /\ Len(result[p]) = 2
        /\ TypeOf(result[p][1]) # "stop_processing"
        /\ TypeOf(result[p][2]) = "stop_processing"

----------------------------------------------------------------------------
(* A pass run alone, as one sequential computation *)

RECURSIVE EvaluateLoop(_, _, _, _)

\* The for loop of evaluate (lines 62-74) from the rules left in todo with
\* the items collected so far, then the sort and the return (lines 77-79):
\* how the call ends and the list it returns
EvaluateLoop(rs, todo, email, items) ==
    IF todo = <<>>
    THEN [outcome |-> "returned",
          result |-> [i \in 1..Len(items) |-> SortedActions(items)[i].action]]
    ELSE LET rule == rs[Head(todo)]
             match == EvaluateRule(rule, email)
         IN  IF IsException(match)
             THEN [outcome |-> match, result |-> <<>>]
             ELSE IF match = "true" /\ HasAction(rule)
                  THEN EvaluateLoop(rs, IF IsStop(rule.action) THEN <<>> ELSE Tail(todo),
                                    email, Append(items, MatchItem(rule)))
                  ELSE EvaluateLoop(rs, Tail(todo), email, items)

\* evaluate(email_data) on the rule list rs
EvaluateAlone(rs, email) == EvaluateLoop(rs, SortedRules(rs), email, <<>>)

RECURSIVE DispatchLoop(_, _, _)

\* The for loop of organize_email (lines 43-62) from item k with the
\* actions applied so far, then the return (line 64)
DispatchLoop(items, k, applied) ==
    IF k > Len(items)
    THEN [outcome |-> "returned", applied |-> applied]
    ELSE IF "action" \notin DOMAIN items[k]
         THEN [outcome |-> "KeyError", applied |-> <<>>]
         ELSE LET action == items[k].action
                  action_type == Get(action, "type", "")
                  after == IF HasHandler(action_type) /\ Handler(action_type, action)
                           THEN Append(applied, action) ELSE applied
              IN  IF HasHandler(action_type) /\ action_type = "stop_processing"
                  THEN [outcome |-> "returned", applied |-> after]
                  ELSE DispatchLoop(items, k + 1, after)

\* organize_email(email_data) on the rule list rs
OrganizeAlone(rs, email) ==
    LET ev == EvaluateAlone(rs, email)
    IN  IF ev.outcome = "returned"
        THEN DispatchLoop(ev.result, 1, <<>>)
        ELSE [outcome |-> ev.outcome, applied |-> <<>>]

\* How the call of pass p ended
OutcomeOf(p) == IF pc[p] = "raised" THEN exc[p] ELSE "returned"

\* A finished call of pass p ended as the same call does when run alone
EndsAsAlone(p) ==
    pc[p] \in {"returned", "raised"}
    => IF op[p] = "organize_email"
       THEN /\ OutcomeOf(p) = OrganizeAlone(rules, email_data[p]).outcome
            /\ applied_actions[p] = OrganizeAlone(rules, email_data[p]).applied
       ELSE /\ OutcomeOf(p) = EvaluateAlone(rules, email_data[p]).outcome
            /\ result[p] = EvaluateAlone(rules, email_data[p]).result

\* With one caller every call ends as the sequential computation does
AloneIsSequential == \A p \in Passes : EndsAsAlone(p)

\* C23: with two passes sharing the Organizer and its rule set, under
\* every interleaving of their steps each finished pass has ended as it
\* does when run alone, with the same applied actions; the rule set is
\* never written.
C23_PassesIndependent ==
    /\ \A p \in PairPasses : EndsAsAlone(p)
    /\ rules \in PairRuleSets

\* C23 witness: both passes have returned from organize_email on different
\* records with different applied actions, the one having stopped on a
\* stop_processing action and the other not.
C23_Witness ==
    /\ pc[1] = "returned" /\ pc[2] = "returned"
    /\ op[1] = "organize_email" /\ op[2] = "organize_email"
    /\ email_data[1] # email_data[2]
    /\ org_stop[1] /\ ~org_stop[2]
    /\ applied_actions[1] = <<StopAction>>
    /\ applied_actions[2] = <<DeleteAction>>

\* C23 witness of an interleaving: pass 2 is in its evaluate loop while
\* pass 1, entered before it, is in its dispatch loop with its stop flag set.
C23_WitnessInterleaved ==
    /\ pc[1] = "organize" /\ org_stop[1]
    /\ pc[2] = "evaluate" /\ visited[2] # <<>> /\ queue[2] # <<>>
    /\ email_data[1] # email_data[2]

----------------------------------------------------------------------------
(* EmailClient *)

\* The exceptions the imaplib operations raise: imaplib.IMAP4.error, and
\* one that is not an IMAP4.error
ErrorKinds == {"IMAP4.error", "OSError"}

\* No operation of the call raises
NoFault == [at |-> "", kind |-> ""]

\* What the server does to the operations ops of one call: none raises, or
\* the operation at raises kind
ServerFaults(ops) ==
    {NoFault} \cup {[at |-> ops[i], kind |-> k] : i \in DOMAIN ops, k \in ErrorKinds}

\* The operations issued when fault strikes: those up to the one that raises
Issued(ops, fault) ==
    IF fault.at = "" THEN ops
    ELSE SubSeq(ops, 1, CHOOSE i \in DOMAIN ops : ops[i] = fault.at)

\* connect: the calls of lines 31-36
ConnectOps == <<"IMAP4_SSL", "login", "select">>

\* disconnect: the calls of lines 58-59
DisconnectOps == <<"close", "logout">>

\* connect (lines 28-49): the connection is made, logged in and the mailbox
\* selected; either except clause resets both fields and returns False
ConnectResult(fault) ==
    IF fault.at = ""
    THEN [connection |-> "IMAP4_SSL", is_connected |-> TRUE, how |-> "returned",
          value |-> "True", logged |-> "", contacted |-> ConnectOps]
    ELSE [connection |-> "None", is_connected |-> FALSE, how |-> "returned",
          value |-> "False", logged |-> fault.kind,
          contacted |-> Issued(ConnectOps, fault)]

\* No finally clause: the fields are reset after logout only
DisconnectResult_NoFinally(conn, isc, fault) ==
    IF conn # "None" /\ fault.at = ""
    THEN [connection |-> "None", is_connected |-> FALSE, logged |-> "",
          contacted |-> DisconnectOps]
    ELSE [connection |-> conn, is_connected |-> isc, logged |-> fault.kind,
          contacted |-> IF conn # "None" THEN Issued(DisconnectOps, fault) ELSE <<>>]

\* disconnect (lines 56-67) of a client whose fields are conn and isc: with
\* a connection, close and logout, and whatever they raise the finally
\* clause resets both fields; without one, nothing
DisconnectResult(conn, isc, fault) ==
    IF conn # "None"
    THEN [connection |-> "None", is_connected |-> FALSE, logged |-> fault.kind,
          contacted |-> Issued(DisconnectOps, fault)]
    ELSE [connection |-> conn, is_connected |-> isc, logged |-> "", contacted |-> <<>>]

\* The mailboxes of the server: messages 1..n
ServerUids == {[i \in 1..n |-> i] : n \in 0..MaxUids}

\* What the server answers to one fetch call: the search raises, or is
\* answered NO, or OK with uids; failed are the messages whose own fetch
\* is answered NO or cannot be parsed
Replies ==
    {[search |-> s, uids |-> <<>>, failed |-> {}] : s \in {"raise", "NO"}}
    \cup {[search |-> "OK", uids |-> u, failed |-> f] :
              u \in ServerUids, f \in SUBSET (1..MaxUids)}

\* The limit arguments of a fetch call
Limits == 1..MaxUids

\* uids[-limit:] (lines 97, 162-163)
LatestUids(uids, limit) ==
    IF limit = 0 \/ limit >= Len(uids) THEN uids
    ELSE SubSeq(uids, Len(uids) - limit + 1, Len(uids))

\* fetch_emails (lines 79-132) and fetch_unread_emails (lines 144-199),
\* which differ in the search criterion: not connected, an empty list at
\* once; else the search, and one fetch for each of the latest uids, a
\* failed one being skipped
FetchResult(isc, criterion, limit, reply) ==
    IF ~isc
    THEN [emails |-> <<>>, logged |-> "Not connected", contacted |-> <<>>]
    ELSE IF reply.search # "OK" \/ reply.uids = <<>>
         THEN [emails |-> <<>>, logged |-> reply.search, contacted |-> <<criterion>>]
         ELSE LET latest_uids == LatestUids(reply.uids, limit)
                  Parsed(uid) == uid \notin reply.failed
              IN  [emails |-> SelectSeq(latest_uids, Parsed), logged |-> "",
                   contacted |-> <<criterion>> \o [i \in DOMAIN latest_uids |-> "fetch"]]

\* A caller calls connect()
Connect ==
    \E fault \in ServerFaults(ConnectOps) :
        LET r == ConnectResult(fault)
        IN  /\ connection' = r.connection
            /\ is_connected' = r.is_connected
            /\ contacted' = r.contacted
            /\ outcome' = [call |-> "connect", was_connected |-> is_connected,
                           how |-> r.how, value |-> r.value, emails |-> <<>>,
                           logged |-> r.logged]
            /\ run' = NoRun
            /\ UNCHANGED <<engineVars, readerVars>>

\* A caller calls disconnect()
Disconnect ==
    \E fault \in IF connection # "None" THEN ServerFaults(DisconnectOps) ELSE {NoFault} :
        LET r == DisconnectResult(connection, is_connected, fault)
        IN  /\ connection' = r.connection
            /\ is_connected' = r.is_connected
            /\ contacted' = r.contacted
            /\ outcome' = [call |-> "disconnect", was_connected |-> is_connected,
                           how |-> "returned", value |-> "None", emails |-> <<>>,
                           logged |-> r.logged]
            /\ run' = NoRun
            /\ UNCHANGED <<engineVars, readerVars>>

\* The fetch method call has returned r: the fields of the client are as
\* they were
Fetched(call, r) ==
    /\ contacted' = r.contacted
    /\ outcome' = [call |-> call, was_connected |-> is_connected,
                   how |-> "returned", value |-> "list", emails |-> r.emails,
                   logged |-> r.logged]
    /\ run' = NoRun
    /\ UNCHANGED <<connection, is_connected, engineVars, readerVars>>

\* A caller calls fetch_emails(limit)
FetchEmails ==
    \E limit \in Limits, reply \in Replies :
        Fetched("fetch_emails", FetchResult(is_connected, "search ALL", limit, reply))

\* A caller calls fetch_unread_emails(limit)
FetchUnreadEmails ==
    \E limit \in Limits, reply \in Replies :
        Fetched("fetch_unread_emails",
                FetchResult(is_connected, "search UNSEEN", limit, reply))

----------------------------------------------------------------------------
(* EmailProcessor, email_processor.py ("v1") and email_processorv2.py ("v2") *)

\* The processor and the filter it works with: v1 builds an EmailFilter in
\* process_emails (lines 44-47); v2 is constructed with a filter of its
\* caller's, or builds an EmailFilter (line 122).  EmailFilter defines
\* filter_email and no filter_emails (email_filter.py lines 4-50).
Processors ==
    {[version |-> "v1", filter |-> "EmailFilter"],
     [version |-> "v2", filter |-> "EmailFilter"],
     [version |-> "v2", filter |-> "injected"]}

\* How writing the output goes: well, or os.makedirs raises, or open raises
Disk == {"ok", "makedirs", "open"}

\* The exception that reaches the except clause of process_emails, "" when
\* none: the call of the missing filter_emails (v1 line 48, v2 line 149),
\* os.makedirs (v1 line 59, v2 line 159), or open in _save_to_csv, which
\* v2 raises again (line 190) and v1 does not (lines 85-86)
Failure(proc, disk) ==
    IF proc.filter = "EmailFilter" THEN "AttributeError"
    ELSE IF disk = "makedirs" THEN "OSError"
    ELSE IF disk = "open" /\ proc.version = "v2" THEN "OSError"
    ELSE ""

\* process_emails (v1 lines 36-70, v2 lines 136-172) on the processor's
\* own EmailClient: connect, whose result is not looked at, fetch_emails,
\* the filter, the links of the filtered emails, the output file; the
\* except clause prints, and in v2 raises again; the finally clause
\* disconnects.  wanted are the emails an injected filter lets through.
ProcessEmails ==
    \E proc \in Processors, cfault \in ServerFaults(ConnectOps) :
    \E limit \in IF cfault.at = "" THEN Limits ELSE {1},
       reply \in IF cfault.at = "" THEN Replies ELSE {[search |-> "NO", uids |-> <<>>, failed |-> {}]},
       dfault \in IF cfault.at = "" THEN ServerFaults(DisconnectOps) ELSE {NoFault},
       disk \in IF proc.filter = "injected" THEN Disk ELSE {"ok"} :
        LET c == ConnectResult(cfault)
            f == FetchResult(c.is_connected, "search ALL", limit, reply)
            d == DisconnectResult(c.connection, c.is_connected, dfault)
            failure == Failure(proc, disk)
        IN  \E wanted \in IF proc.filter = "injected" THEN SUBSET Range(f.emails) ELSE {{}} :
            LET Wanted(uid) == uid \in wanted
                filtered_emails == SelectSeq(f.emails, Wanted)
                saved == proc.filter = "injected" /\ disk # "makedirs"
            IN  /\ connection' = d.connection
                /\ is_connected' = d.is_connected
                /\ contacted' = c.contacted \o f.contacted \o d.contacted
                /\ outcome' = [call |-> "disconnect", was_connected |-> c.is_connected,
                               how |-> "returned", value |-> "None", emails |-> <<>>,
                               logged |-> d.logged]
                /\ run' = [version |-> proc.version, filter |-> proc.filter,
                           connected |-> c.value,
                           calls |-> <<"connect", "fetch_emails", "disconnect">>,
                           opened |-> IF saved THEN 1 ELSE 0,
                           rows |-> IF saved /\ disk = "ok" THEN filtered_emails ELSE <<>>,
                           how |-> IF failure # "" /\ proc.version = "v2"
                                   THEN failure ELSE "returned"]
                /\ UNCHANGED <<engineVars, readerVars>>

\* The organizer is not used
EngineIdle ==
    /\ rules = <<>>
    /\ inbox = {}
    /\ InitLocals

InitMail ==
    /\ EngineIdle
    /\ ClientNew
    /\ ReaderLoaded(<<>>)

\* The calls on one EmailClient, its owner's process_emails among them
NextMail ==
    \/ Connect
    \/ Disconnect
    \/ FetchEmails
    \/ FetchUnreadEmails
    \/ ProcessEmails

SpecMail == InitMail /\ [][NextMail]_vars

----------------------------------------------------------------------------
(* Properties of EmailClient and EmailProcessor *)

\* The last call of connect failed
ConnectFailed == outcome.call = "connect" /\ outcome.logged # ""

\* C26: a connect that fails, in making the connection, in the login or in
\* selecting the mailbox, ends by raising the exception to its caller, and
\* leaves connection None and is_connected false.
C26_ConnectFailureRaises ==
    ConnectFailed
    => /\ outcome.how # "returned"
       /\ connection = "None"
       /\ ~is_connected

\* The calls of method among calls
CallsOf(calls, method) == {i \in DOMAIN calls : calls[i] = method}

\* C27: a call of process_emails calls disconnect exactly once and after
\* connect; when its connect failed, it has not called fetch_emails, has
\* opened no output file and has raised the error to its caller.
C27_DisconnectOnceAndConnectFailureRaised ==
    run.version # ""
    => /\ Cardinality(CallsOf(run.calls, "disconnect")) = 1
       /\ \A i \in CallsOf(run.calls, "connect"), j \in CallsOf(run.calls, "disconnect") : i < j
       /\ run.connected = "False"
          => /\ CallsOf(run.calls, "fetch_emails") = {}
             /\ run.opened = 0
             /\ run.how # "returned"

\* C30: between calls is_connected is true exactly when connection is not
\* None; a fetch_emails or fetch_unread_emails called while not connected
\* has returned the empty list and issued no server operation; and after
\* disconnect connection is None and is_connected false, whatever close
\* and logout did.
C30_ClientStateConsistent ==
    /\ is_connected <=> connection # "None"
    /\ (outcome.call \in {"fetch_emails", "fetch_unread_emails"} /\ ~outcome.was_connected)
       => (outcome.emails = <<>> /\ contacted = <<>>)
    /\ outcome.call = "disconnect" => (connection = "None" /\ ~is_connected)

\* C30 witness: disconnect was called on a connected client and close raised.
C30_Witness ==
    /\ outcome.call = "disconnect"
    /\ outcome.was_connected
    /\ outcome.logged # ""
    /\ contacted = <<"close">>
    /\ run = NoRun

\* C30 witness: fetch_unread_emails was called on a client that is not connected.
C30_WitnessFetchNotConnected ==
    /\ outcome.call = "fetch_unread_emails"
    /\ ~outcome.was_connected

\* C30 witness: a connected client has fetched two emails.
C30_WitnessFetched ==
    /\ outcome.call = "fetch_emails"
    /\ Len(outcome.emails) = 2
    /\ is_connected

----------------------------------------------------------------------------
(* The checkpointed reader, email_reader/email_readerv4.py.  A run is one *)
(* execution of the script: the module globals are fresh, the checkpoint  *)
(* file and the output files stay.                                        *)

\* The period of the saves to the CSV file: 10 in processed_count % 10
SavePeriod == 10

\* Emails processed in one run at most.  Line 35 sets 100, ten save
\* periods; a batch of the model is BatchPeriods save periods.
BATCH_SIZE == SavePeriod * BatchPeriods

\* The mailboxes of the server: messages 1..n, which the search returns in
\* this order
Mailboxes == {[i \in 1..n |-> i] : n \in 0..MaxMail}

\* extract_links_from_body on the body of message uid: every message
\* carries one link, named after it
LinksIn(uid) == <<uid>>

\* Another failure of the server or the disk may happen
MayFail == faults < MaxFaults

\* The script is started: the globals are initialised (lines 68-71), the
\* mailbox is searched (lines 177-191) and the checkpoint loaded (line
\* 194).  When the connection fails (line 104) or the search is not
\* answered OK (lines 184-186) the run ends at once.
StartRun ==
    /\ rpc \in {"idle", "done"}
    /\ runs < MaxRuns
    /\ runs' = runs + 1
    /\ all_links' = <<>>
    /\ should_exit' = FALSE
    /\ processed_count' = 0
    /\ \E status \in {"OK"} \cup (IF MayFail THEN {"NO"} ELSE {}) :
        IF status = "OK"
        THEN /\ email_uids' = mailbox
             /\ last_processed_uid' = checkpoint
             /\ rpc' = "loop"
             /\ UNCHANGED faults
        ELSE /\ email_uids' = <<>>
             /\ last_processed_uid' = 0
             /\ rpc' = "done"
             /\ faults' = faults + 1
    /\ UNCHANGED <<mailbox, checkpoint, csv, processed, extracted, engineVars, clientVars>>

\* The for loop passes a message at or below the loaded checkpoint (lines
\* 198-203)
SkipProcessed ==
    /\ rpc = "loop"
    /\ email_uids # <<>>
    /\ Head(email_uids) <= last_processed_uid
    /\ email_uids' = Tail(email_uids)
    /\ UNCHANGED <<mailbox, rpc, last_processed_uid, processed_count, all_links,
                   should_exit, checkpoint, csv, processed, extracted, runs, faults,
                   engineVars, clientVars>>

\* The for loop takes a message above the loaded checkpoint (lines
\* 205-237).  Its fetch is answered NO and it is skipped (lines 207-209),
\* or parsing it raises and the error is logged (lines 254-255); else its
\* links are added to all_links, it is counted and the checkpoint saved,
\* unless writing the checkpoint file fails (lines 151-152).
ProcessEmail ==
    /\ rpc = "loop"
    /\ email_uids # <<>>
    /\ Head(email_uids) > last_processed_uid
    /\ email_uids' = Tail(email_uids)
    /\ LET uid_int == Head(email_uids)
       IN  \E res \in {"OK"} \cup (IF MayFail THEN {"NO", "error", "checkpoint unsaved"} ELSE {}) :
           IF res \in {"NO", "error"}
           THEN /\ faults' = faults + 1
                /\ UNCHANGED <<rpc, processed_count, all_links, checkpoint, processed,
                               extracted>>
           ELSE /\ all_links' = all_links \o LinksIn(uid_int)
                /\ extracted' = extracted \cup Range(LinksIn(uid_int))
                /\ processed' = Append(processed, uid_int)
                /\ processed_count' = processed_count + 1
                /\ checkpoint' = IF res = "OK" THEN uid_int ELSE checkpoint
                /\ faults' = IF res = "OK" THEN faults ELSE faults + 1
                /\ rpc' = "flush"
    /\ UNCHANGED <<mailbox, last_processed_uid, should_exit, csv, runs, engineVars,
                   clientVars>>

\* The periodic save (lines 240-242): on every tenth email of the run, or
\* with should_exit set, all_links is appended to the CSV file and
\* cleared; it is cleared also when the write failed (lines 140-141)
SaveLinks ==
    /\ rpc = "flush"
    /\ rpc' = "check"
    /\ IF processed_count % SavePeriod = 0 \/ should_exit
       THEN /\ all_links' = <<>>
            /\ \E written \in {TRUE} \cup (IF MayFail THEN {FALSE} ELSE {}) :
                /\ csv' = IF written THEN csv \o all_links ELSE csv
                /\ faults' = IF written THEN faults ELSE faults + 1
       ELSE UNCHANGED <<all_links, csv, faults>>
    /\ UNCHANGED <<mailbox, email_uids, last_processed_uid, processed_count, should_exit,
                   checkpoint, processed, extracted, runs, engineVars, clientVars>>

\* The two returns after an email (lines 245-252): should_exit is set, or
\* the batch is full; else the loop goes on
ExitOrBatch ==
    /\ rpc = "check"
    /\ rpc' = IF should_exit \/ processed_count >= BATCH_SIZE THEN "done" ELSE "loop"
    /\ UNCHANGED <<mailbox, email_uids, last_processed_uid, processed_count, all_links,
                   should_exit, checkpoint, csv, processed, extracted, runs, faults,
                   engineVars, clientVars>>

\* The loop has visited every message: the final save (lines 257-259)
\* appends what is left in all_links and the run ends
FinalSave ==
    /\ rpc = "loop"
    /\ email_uids = <<>>
    /\ rpc' = "done"
    /\ \E written \in {TRUE} \cup (IF MayFail /\ all_links # <<>> THEN {FALSE} ELSE {}) :
        /\ csv' = IF written THEN csv \o all_links ELSE csv
        /\ faults' = IF written THEN faults ELSE faults + 1
    /\ UNCHANGED <<mailbox, email_uids, last_processed_uid, processed_count, all_links,
                   should_exit, checkpoint, processed, extracted, runs, engineVars,
                   clientVars>>

\* Ctrl+C during a run: signal_handler sets should_exit (lines 77-84)
\* between any two statements of process_emails
Sigint ==
    /\ rpc \in {"loop", "flush", "check"}
    /\ ~should_exit
    /\ should_exit' = TRUE
    /\ UNCHANGED <<mailbox, rpc, email_uids, last_processed_uid, processed_count,
                   all_links, checkpoint, csv, processed, extracted, runs, faults,
                   engineVars, clientVars>>

InitReader ==
    /\ EngineIdle
    /\ ClientNew
    /\ \E box \in Mailboxes : ReaderLoaded(box)

\* The runs of the reader, one after the other, and the user's Ctrl+C
NextReader ==
    \/ StartRun
    \/ SkipProcessed
    \/ ProcessEmail
    \/ SaveLinks
    \/ ExitOrBatch
    \/ FinalSave
    \/ Sigint

SpecReader == InitReader /\ [][NextReader]_vars

----------------------------------------------------------------------------
(* Properties of the checkpointed reader *)

\* C28: whenever process_emails has returned, at the end of the mailbox,
\* at the batch limit or after Ctrl+C, every link extracted from an email
\* processed so far is in the CSV file; none is left in all_links only.
C28_LinksSavedAtReturn ==
    rpc = "done" => extracted \subseteq Range(csv)

\* No email at or below the checkpoint is unprocessed, and a run has
\* processed BATCH_SIZE emails at most
NothingLeftBehind ==
    /\ \A uid \in Range(mailbox) : uid <= checkpoint => uid \in Range(processed)
    /\ processed_count <= BATCH_SIZE

\* An email that is processed is above the saved checkpoint, and the
\* checkpoint does not decrease
ResumeStep ==
    /\ checkpoint' >= checkpoint
    /\ processed' # processed => processed'[Len(processed')] > checkpoint

\* C29: over the runs no email at or below the saved checkpoint is
\* processed again, no email below the checkpoint is left unprocessed, also
\* after a failed fetch or a processing error, the checkpoint never
\* decreases, and one run processes BATCH_SIZE emails at most.
C29_ResumesWhereItLeftOff ==
    [](NothingLeftBehind) /\ [][ResumeStep]_vars

====
